---- MODULE Spec2Model ----
(***************************************************************************)
(* Model of scripts/collect_and_store_tweets.py: the collection loop       *)
(* collect_and_store_tweets_from_query and the multi-query driver          *)
(* download_and_store_tweets_on_mongodb.                                   *)
(*                                                                         *)
(* The program is sequential.  pc is the position of the single thread:    *)
(*   "driver"       head of the for loop (line 113)                        *)
(*   "fetch"        about to call tweets.next() (line 71)                  *)
(*   "insert"       record built, about to call insert_one (line 85)       *)
(*   "loop_done"    the while loop was left by break (line 98)             *)
(*   "call_returned" the collection loop has returned to line 115          *)
(*   "driver_sleep" blocked in sleep(randint(30, 120)) (line 116)          *)
(*   "returned"     the driver has returned (line 117)                     *)
(*   "aborted"      an uncaught exception has unwound every frame          *)
(* The search API and the MongoDB collection are the environment: every    *)
(* outcome a call can have (an item, StopIteration, TweepError,            *)
(* PyMongoError, any other exception) is a separate action.                *)
(***************************************************************************)
EXTENDS Integers, Sequences, FiniteSets, TLC

\* ---------------------------------------------------------------- bounds
MaxQueries == 2
MaxItems == 2
MaxRateLimits == 2

\* ------------------------------------------------------ program constants
number_of_tweets == 200
BackoffUnit == 60
SleepMin == 30
SleepMax == 120

Queries == {"q1", "q2"}

None == [none |-> TRUE]

\* Two status objects as the search API returns them; all fields differ.
TweetA ==
  [text |-> "ta", lang |-> "en", created_at |-> 1,
   user |-> [name |-> "ua", followers_count |-> 10, location |-> "la"],
   retweet_count |-> 2, favorite_count |-> 3]

TweetB ==
  [text |-> "tb", lang |-> "it", created_at |-> 4,
   user |-> [name |-> "ub", followers_count |-> 20, location |-> "lb"],
   retweet_count |-> 5, favorite_count |-> 6]

SeqsUpTo(S, n) == UNION {[1..k -> S] : k \in 0..n}

\* What the search can yield: the first k items of a timeline on which
\* neighbours differ, for every k up to the bound.
Timeline(k) == IF k % 2 = 1 THEN TweetA ELSE TweetB

ResultSequences == {[k \in 1..n |-> Timeline(k)] : n \in 0..MaxItems}

VARIABLES
  list_of_queries,   \* the driver's argument
  qi,                \* number of list elements the for loop has taken
  pc,
  query,             \* locals of collect_and_store_tweets_from_query
  backoff_counter,
  tweets,
  tweet,
  filtered_tweet,
  sleeping,          \* seconds of the driver's sleep in progress, else 0
  mongo_collection,  \* the sink: documents in insertion order
  written_by,        \* history: for each document, who inserted it
  ops,               \* history: what the current loop invocation has done
  driver_log         \* history: calls, completions and sleeps of the driver

vars == <<list_of_queries, qi, pc, query, backoff_counter, tweets, tweet,
          filtered_tweet, sleeping, mongo_collection, written_by, ops,
          driver_log>>

locals == <<query, backoff_counter, tweets, tweet, filtered_tweet>>

\* ------------------------------------------------------------ pure parts

\* q="{} -filter:retweets".format(query)
SearchQuery(qs) == qs \o " -filter:retweets"

\* tweepy.Cursor(api.search, q=..., result_type="mixed").items(n): a lazy
\* iterator; results is what the upstream will yield for this search.
Cursor(qs, results) ==
  [q |-> SearchQuery(qs), result_type |-> "mixed", limit |-> number_of_tweets,
   results |-> results, num_tweets |-> 0]

Exhausted(c) == c.num_tweets = c.limit \/ c.num_tweets = Len(c.results)

\* FilteredTweet with the two counters exchanged
FilteredTweet_Swapped(qs, t) ==
  [query |-> qs,
   text |-> t.text,
   language |-> t.lang,
   date |-> t.created_at,
   username |-> t.user.name,
   user_followers |-> t.user.followers_count,
   user_location |-> t.user.location,
   retweets |-> t.favorite_count,
   likes |-> t.retweet_count]

\* FilteredTweet storing the string that was sent to the search API
FilteredTweet_SearchString(qs, t) ==
  [query |-> SearchQuery(qs),
   text |-> t.text,
   language |-> t.lang,
   date |-> t.created_at,
   username |-> t.user.name,
   user_followers |-> t.user.followers_count,
   user_location |-> t.user.location,
   retweets |-> t.retweet_count,
   likes |-> t.favorite_count]

FilteredTweet(qs, t) ==
  [query |-> qs,
   text |-> t.text,
   language |-> t.lang,
   date |-> t.created_at,
   username |-> t.user.name,
   user_followers |-> t.user.followers_count,
   user_location |-> t.user.location,
   retweets |-> t.retweet_count,
   likes |-> t.favorite_count]

\* randint with an upper end one too far
randint_Wide(a, b) == a..(b + 1)

randint(a, b) == a..b

Op(kind, pos, secs) == [op |-> kind, pos |-> pos, secs |-> secs]

Select(s, kind) == SelectSeq(s, LAMBDA e : e.op = kind)

Signals == Len(Select(ops, "limit"))

\* ------------------------------------------------------------------ Init
Init ==
  /\ list_of_queries \in SeqsUpTo(Queries, MaxQueries)
  /\ qi = 0
  /\ pc = "driver"
  /\ query = None
  /\ backoff_counter = None
  /\ tweets = None
  /\ tweet = None
  /\ filtered_tweet = None
  /\ sleeping = 0
  /\ mongo_collection = <<>>
  /\ written_by = <<>>
  /\ ops = <<>>
  /\ driver_log = <<>>

\* --------------------------------------------------------------- driver

\* for query in list_of_queries: collect_and_store_tweets_from_query(...)
\* up to the first tweets.next(): the counter is set and the cursor opened.
DriverNext ==
  /\ pc = "driver"
  /\ qi < Len(list_of_queries)
  /\ \E results \in ResultSequences :
       tweets' = Cursor(list_of_queries[qi + 1], results)
  /\ qi' = qi + 1
  /\ query' = list_of_queries[qi + 1]
  /\ backoff_counter' = 1
  /\ tweet' = None
  /\ filtered_tweet' = None
  /\ ops' = <<>>
  /\ driver_log' = Append(driver_log, <<"call", list_of_queries[qi + 1]>>)
  /\ pc' = "fetch"
  /\ UNCHANGED <<list_of_queries, sleeping, mongo_collection, written_by>>

\* DriverSleep that sleeps only when another query follows
DriverSleep_NotAfterLast ==
  /\ pc = "call_returned"
  /\ IF qi < Len(list_of_queries)
       THEN sleeping' \in randint(SleepMin, SleepMax) /\ pc' = "driver_sleep"
       ELSE sleeping' = 0 /\ pc' = "driver"
  /\ UNCHANGED <<list_of_queries, qi, locals, mongo_collection, written_by,
                 ops, driver_log>>

\* sleep(randint(30, 120)) begins
DriverSleep ==
  /\ pc = "call_returned"
  /\ sleeping' \in randint(SleepMin, SleepMax)
  /\ pc' = "driver_sleep"
  /\ UNCHANGED <<list_of_queries, qi, locals, mongo_collection, written_by,
                 ops, driver_log>>

\* the sleep has elapsed; back to the head of the for loop
DriverWake ==
  /\ pc = "driver_sleep"
  /\ driver_log' = Append(driver_log, <<"sleep", "elapsed">>)
  /\ sleeping' = 0
  /\ pc' = "driver"
  /\ UNCHANGED <<list_of_queries, qi, locals, mongo_collection, written_by, ops>>

\* the list is exhausted: the final log line, the function returns
DriverReturn ==
  /\ pc = "driver"
  /\ qi = Len(list_of_queries)
  /\ pc' = "returned"
  /\ UNCHANGED <<list_of_queries, qi, locals, sleeping, mongo_collection,
                 written_by, ops, driver_log>>

\* ------------------------------------------------------ collection loop

\* tweets.next() yields an item; the record is built from it
FetchItem ==
  /\ pc = "fetch"
  /\ ~Exhausted(tweets)
  /\ tweet' = tweets.results[tweets.num_tweets + 1]
  /\ tweets' = [tweets EXCEPT !.num_tweets = @ + 1]
  /\ filtered_tweet' = FilteredTweet(query, tweets.results[tweets.num_tweets + 1])
  /\ ops' = Append(ops, Op("fetch", tweets.num_tweets + 1, 0))
  /\ pc' = "insert"
  /\ UNCHANGED <<list_of_queries, qi, query, backoff_counter, sleeping,
                 mongo_collection, written_by, driver_log>>

\* FetchStopIteration whose handler logs but does not break
FetchStopIteration_NoBreak ==
  /\ pc = "fetch"
  /\ Exhausted(tweets)
  /\ Len(Select(ops, "stop")) < 1
  /\ ops' = Append(ops, Op("stop", tweets.num_tweets + 1, 0))
  /\ pc' = "fetch"
  /\ UNCHANGED <<list_of_queries, qi, locals, sleeping, mongo_collection,
                 written_by, driver_log>>

\* tweets.next() raises StopIteration: log, break
FetchStopIteration ==
  /\ pc = "fetch"
  /\ Exhausted(tweets)
  /\ ops' = Append(ops, Op("stop", tweets.num_tweets + 1, 0))
  /\ driver_log' = Append(driver_log, <<"done", query>>)
  /\ pc' = "loop_done"
  /\ UNCHANGED <<list_of_queries, qi, locals, sleeping, mongo_collection,
                 written_by>>

\* the closing log line; the function returns and its frame is gone
LoopReturn ==
  /\ pc = "loop_done"
  /\ query' = None
  /\ backoff_counter' = None
  /\ tweets' = None
  /\ tweet' = None
  /\ filtered_tweet' = None
  /\ ops' = <<>>
  /\ pc' = "call_returned"
  /\ UNCHANGED <<list_of_queries, qi, sleeping, mongo_collection, written_by,
                 driver_log>>

\* FetchTweepError that moves past the item that was being fetched
FetchTweepError_SkipItem ==
  /\ pc = "fetch"
  /\ Signals < MaxRateLimits
  /\ ops' = Append(ops, Op("limit", tweets.num_tweets + 1,
                           BackoffUnit * backoff_counter))
  /\ backoff_counter' = backoff_counter + 1
  /\ tweets' = IF Exhausted(tweets) THEN tweets
                ELSE [tweets EXCEPT !.num_tweets = @ + 1]
  /\ pc' = "fetch"
  /\ UNCHANGED <<list_of_queries, qi, query, tweet, filtered_tweet,
                 sleeping, mongo_collection, written_by, driver_log>>

\* FetchTweepError that gives up on the second signal and leaves the loop
FetchTweepError_GiveUp ==
  /\ pc = "fetch"
  /\ Signals < MaxRateLimits
  /\ ops' = Append(ops, Op("limit", tweets.num_tweets + 1,
                           BackoffUnit * backoff_counter))
  /\ backoff_counter' = backoff_counter + 1
  /\ IF backoff_counter >= 2
       THEN pc' = "loop_done" /\ driver_log' = Append(driver_log, <<"done", query>>)
       ELSE pc' = "fetch" /\ driver_log' = driver_log
  /\ UNCHANGED <<list_of_queries, qi, query, tweets, tweet, filtered_tweet,
                 sleeping, mongo_collection, written_by>>

\* tweets.next() raises TweepError; the cursor is left where it was:
\* sleep(60 * backoff_counter); backoff_counter += 1; continue
FetchTweepError ==
  /\ pc = "fetch"
  /\ Signals < MaxRateLimits
  /\ ops' = Append(ops, Op("limit", tweets.num_tweets + 1,
                           BackoffUnit * backoff_counter))
  /\ backoff_counter' = backoff_counter + 1
  /\ pc' = "fetch"
  /\ UNCHANGED <<list_of_queries, qi, query, tweets, tweet, filtered_tweet,
                 sleeping, mongo_collection, written_by, driver_log>>

\* FetchOtherError under a catch-all clause that logs and goes on
FetchOtherError_Swallowed ==
  /\ pc = "fetch"
  /\ Len(Select(ops, "raise")) < 1
  /\ ops' = Append(ops, Op("raise", tweets.num_tweets + 1, 0))
  /\ pc' = "fetch"
  /\ UNCHANGED <<list_of_queries, qi, locals, sleeping, mongo_collection,
                 written_by, driver_log>>

\* tweets.next() raises an exception no except clause names
FetchOtherError ==
  /\ pc = "fetch"
  /\ ops' = Append(ops, Op("raise", tweets.num_tweets + 1, 0))
  /\ pc' = "aborted"
  /\ UNCHANGED <<list_of_queries, qi, locals, sleeping, mongo_collection,
                 written_by, driver_log>>

\* mongo_collection.insert_one(filtered_tweet) succeeds
InsertOne ==
  /\ pc = "insert"
  /\ mongo_collection' = Append(mongo_collection, filtered_tweet)
  /\ written_by' = Append(written_by,
                          [call |-> qi, q |-> tweets.q])
  /\ ops' = Append(ops, Op("write", tweets.num_tweets, 0))
  /\ pc' = "fetch"
  /\ UNCHANGED <<list_of_queries, qi, locals, sleeping, driver_log>>

\* InsertPyMongoError whose handler leaves the loop
InsertPyMongoError_Break ==
  /\ pc = "insert"
  /\ ops' = Append(ops, Op("fail", tweets.num_tweets, 0))
  /\ driver_log' = Append(driver_log, <<"done", query>>)
  /\ pc' = "loop_done"
  /\ UNCHANGED <<list_of_queries, qi, locals, sleeping, mongo_collection,
                 written_by>>

\* InsertPyMongoError whose handler also advances the backoff counter
InsertPyMongoError_Backoff ==
  /\ pc = "insert"
  /\ ops' = Append(ops, Op("fail", tweets.num_tweets, 0))
  /\ backoff_counter' = backoff_counter + 1
  /\ pc' = "fetch"
  /\ UNCHANGED <<list_of_queries, qi, query, tweets, tweet, filtered_tweet,
                 sleeping, mongo_collection, written_by, driver_log>>

\* insert_one raises PyMongoError: logged, the loop goes on
InsertPyMongoError ==
  /\ pc = "insert"
  /\ ops' = Append(ops, Op("fail", tweets.num_tweets, 0))
  /\ pc' = "fetch"
  /\ UNCHANGED <<list_of_queries, qi, locals, sleeping, mongo_collection,
                 written_by, driver_log>>

\* insert_one raises an exception no except clause names
InsertOtherError ==
  /\ pc = "insert"
  /\ ops' = Append(ops, Op("raise", tweets.num_tweets, 0))
  /\ pc' = "aborted"
  /\ UNCHANGED <<list_of_queries, qi, locals, sleeping, mongo_collection,
                 written_by, driver_log>>

Next ==
  \/ DriverNext
  \/ DriverSleep
  \/ DriverWake
  \/ DriverReturn
  \/ FetchItem
  \/ FetchStopIteration
  \/ LoopReturn
  \/ FetchTweepError
  \/ FetchOtherError
  \/ InsertOne
  \/ InsertPyMongoError
  \/ InsertOtherError

Spec == Init /\ [][Next]_vars

\* The program is one thread that is never descheduled for good.
LiveSpec == Init /\ [][Next]_vars /\ WF_vars(Next)

\* ------------------------------------------------- vocabulary of the claims

InLoop == pc \in {"fetch", "insert"}

\* the frame of the collection loop exists (running or just finished)
HasFrame == pc \in {"fetch", "insert", "loop_done"}

\* documents inserted by earlier invocations, and by the current one
Base == Cardinality({k \in DOMAIN written_by : written_by[k].call < qi})

LoopDocs == SubSeq(mongo_collection, Base + 1, Len(mongo_collection))

\* how many operations of a kind the current invocation did at a position
Count(kind, p) == Len(SelectSeq(ops, LAMBDA e : e.op = kind /\ e.pos = p))

Positions(kind) == [k \in 1..Len(Select(ops, kind)) |-> Select(ops, kind)[k].pos]

Inserts == SelectSeq(ops, LAMBDA e : e.op \in {"write", "fail"})

SameFields(doc, t) ==
  /\ doc.text = t.text
  /\ doc.language = t.lang
  /\ doc.date = t.created_at
  /\ doc.username = t.user.name
  /\ doc.user_followers = t.user.followers_count
  /\ doc.user_location = t.user.location
  /\ doc.retweets = t.retweet_count
  /\ doc.likes = t.favorite_count

LogOf(kind) == SelectSeq(driver_log, LAMBDA e : e[1] = kind)

Last(s) == s[Len(s)]

\* --------------------------------------------------------------- claims

\* C1: a loop that ends after n items with no rate-limit signal and no sink
\* failure has made exactly n inserts, for items 1..n in that order, and
\* every inserted document carries the eight fields of its item unchanged.
C1_OneWritePerItem ==
  (pc = "loop_done" /\ Select(ops, "limit") = <<>> /\ Select(ops, "fail") = <<>>)
    => /\ Len(tweets.results) <= tweets.limit
       /\ Len(Inserts) = Len(tweets.results)
       /\ Positions("write") = [k \in 1..Len(tweets.results) |-> k]
       /\ Positions("fetch") = [k \in 1..Len(tweets.results) |-> k]
       /\ Len(LoopDocs) = Len(tweets.results)
       /\ \A k \in 1..Len(LoopDocs) : SameFields(LoopDocs[k], tweets.results[k])

C1_Witness ==
  /\ pc = "loop_done"
  /\ Select(ops, "limit") = <<>>
  /\ Select(ops, "fail") = <<>>
  /\ Len(tweets.results) = 2
  /\ tweets.results[1] # tweets.results[2]
  /\ Len(LoopDocs) = 2

\* C2: a sink write error for item k does not stop the loop: the loop is
\* back at the fetch right after it, and when the loop has ended with item k
\* the only failure, every other item was fetched and inserted exactly once,
\* in order, and item k was inserted zero times after one attempt.
C2_SinkFailureSkipsOneItem ==
  /\ (HasFrame /\ ops # <<>> /\ Last(ops).op = "fail")
       => pc = "fetch" /\ tweets.num_tweets = Last(ops).pos
  /\ (pc = "loop_done" /\ Len(Select(ops, "fail")) = 1)
       => LET k == Select(ops, "fail")[1].pos
              n == Len(tweets.results)
              rest == SelectSeq([j \in 1..n |-> j], LAMBDA j : j # k)
          IN /\ k \in 1..n
             /\ Count("write", k) = 0
             /\ Count("fail", k) = 1
             /\ Count("fetch", k) = 1
             /\ \A j \in (1..n) \ {k} :
                  Count("fetch", j) = 1 /\ Count("write", j) = 1 /\ Count("fail", j) = 0
             /\ Positions("write") = rest
             /\ Len(LoopDocs) = n - 1
             /\ \A i \in 1..Len(rest) : SameFields(LoopDocs[i], tweets.results[rest[i]])
             /\ Last(ops).op = "stop"

C2_Witness ==
  /\ pc = "loop_done"
  /\ Len(tweets.results) = 2
  /\ Len(Select(ops, "fail")) = 1
  /\ Select(ops, "fail")[1].pos = 1
  /\ Count("write", 2) = 1

\* C3: a loop that ends having received exactly one rate-limit signal (and
\* no sink failure) slept once, for 60 seconds, fetched next at the position
\* it was fetching when the signal came, and inserted every item exactly once.
C3_OneRateLimitLosesNothing ==
  (pc = "loop_done" /\ Signals = 1 /\ Select(ops, "fail") = <<>>)
    => LET n == Len(tweets.results)
           at == CHOOSE i \in 1..Len(ops) : ops[i].op = "limit"
       IN /\ ops[at].secs = 60
          /\ at < Len(ops)
          /\ ops[at + 1].op \in {"fetch", "stop"}
          /\ ops[at + 1].pos = ops[at].pos
          /\ \A j \in 1..n : Count("fetch", j) = 1 /\ Count("write", j) = 1
          /\ Positions("write") = [k \in 1..n |-> k]
          /\ Len(LoopDocs) = n
          /\ \A k \in 1..n : SameFields(LoopDocs[k], tweets.results[k])

C3_Witness ==
  /\ pc = "loop_done"
  /\ Signals = 1
  /\ Select(ops, "fail") = <<>>
  /\ Len(tweets.results) = 2
  /\ Select(ops, "limit")[1].pos = 2
  /\ Len(LoopDocs) = 2

IsPrefix(a, b) == Len(a) <= Len(b) /\ SubSeq(b, 1, Len(a)) = a

\* what a driver that runs to its end does: per query a call, the loop's
\* completion, a sleep
ExpectedLog(qs) ==
  [k \in 1..(3 * Len(qs)) |->
     IF k % 3 = 1 THEN <<"call", qs[(k + 2) \div 3]>>
     ELSE IF k % 3 = 2 THEN <<"done", qs[(k + 2) \div 3]>>
     ELSE <<"sleep", "elapsed">>]

\* C4: the driver calls the loop once per query, in list order, a call is
\* made only after the previous loop has finished and a sleep has elapsed,
\* every such sleep lasts 30 to 120 seconds, and a driver that returns has
\* made exactly one call per query.
C4_OneLoopPerQueryInOrder ==
  /\ IsPrefix(driver_log, ExpectedLog(list_of_queries))
  /\ Len(LogOf("call")) = qi
  /\ (pc = "driver_sleep" => sleeping >= 30 /\ sleeping <= 120)
  /\ (InLoop => Last(driver_log) = <<"call", list_of_queries[qi]>>)
  /\ (pc = "returned" =>
        LogOf("call") = [k \in 1..Len(list_of_queries) |-> <<"call", list_of_queries[k]>>])

C4_Witness ==
  /\ pc = "returned"
  /\ Len(list_of_queries) = 2
  /\ list_of_queries[1] # list_of_queries[2]
  /\ Len(LogOf("call")) = 2

\* C5: a loop whose result sequence is empty, while it has received no
\* rate-limit signal and raised nothing, either has not fetched yet or has
\* ended on its first fetch: no insert, no backoff sleep, normal completion.
C5_EmptySequenceEndsAtOnce ==
  (HasFrame /\ tweets.results = <<>> /\ Signals = 0)
    => /\ LoopDocs = <<>>
       /\ Inserts = <<>>
       /\ backoff_counter = 1
       /\ \/ pc = "fetch" /\ ops = <<>>
          \/ /\ pc = "loop_done"
             /\ ops = <<Op("stop", 1, 0)>>
             /\ Last(driver_log) = <<"done", query>>

C5_Witness ==
  /\ pc = "loop_done"
  /\ tweets.results = <<>>
  /\ ops = <<Op("stop", 1, 0)>>

\* C6: an exception that no except clause names ends everything: the state
\* right after it is the aborted state, the loop of the current query has
\* not completed, no loop was started for a later query, and from then on
\* nothing changes (no fetch, no insert, no sleep).
C6_AbortedState ==
  /\ (Select(ops, "raise") # <<>>) <=> (pc = "aborted")
  /\ pc = "aborted" =>
       /\ Last(ops).op = "raise"
       /\ Len(Select(ops, "raise")) = 1
       /\ Len(LogOf("call")) = qi
       /\ Len(LogOf("done")) = qi - 1
       /\ \A k \in DOMAIN written_by : written_by[k].call <= qi

C6_UncaughtAbortsRun ==
  /\ []C6_AbortedState
  /\ [][pc = "aborted" => UNCHANGED vars]_vars

C6_Witness ==
  /\ pc = "aborted"
  /\ qi = 1
  /\ Len(list_of_queries) = 2
  /\ Last(ops).pos = 2

\* C7: every document in the sink has the query string of the invocation
\* that inserted it, which is the string sent to the search API without the
\* retweet-exclusion modifier.
C7_QueryFieldIsOwnQuery ==
  /\ Len(written_by) = Len(mongo_collection)
  /\ \A k \in DOMAIN mongo_collection :
       /\ written_by[k].call \in 1..qi
       /\ mongo_collection[k].query = list_of_queries[written_by[k].call]
       /\ written_by[k].q = mongo_collection[k].query \o " -filter:retweets"
  /\ \A j, k \in DOMAIN written_by : j < k => written_by[j].call <= written_by[k].call

C7_Witness ==
  /\ pc = "returned"
  /\ Len(mongo_collection) >= 2
  /\ written_by[1].call = 1
  /\ written_by[Len(written_by)].call = 2
  /\ mongo_collection[1].query # mongo_collection[Len(mongo_collection)].query

\* C8: in every query the backoff counter is 1 plus the number of
\* rate-limit signals handled so far in that query, whatever else happened,
\* and the k-th signal of a query was followed by a sleep of 60*k seconds.
C8_BackoffCountsSignals ==
  HasFrame =>
    /\ backoff_counter = 1 + Signals
    /\ \A k \in 1..Signals : Select(ops, "limit")[k].secs = 60 * k

C8_Witness ==
  /\ qi = 2
  /\ pc = "fetch"
  /\ Signals = 2
  /\ Select(ops, "fail") # <<>>
  /\ Select(ops, "write") # <<>>
  /\ Last(ops).op = "limit"

\* C9: a rate-limit signal never ends the loop: after it the loop is at the
\* fetch again, with the same cursor, in the same query, nothing completed
\* and nothing written; and a loop that is never hit by an uncaught
\* exception, receiving finitely many signals, reaches completion.
C9_SignalStep ==
  (Len(ops') = Len(ops) + 1 /\ Last(ops').op = "limit")
    => /\ pc = "fetch"
       /\ pc' = "fetch"
       /\ tweets' = tweets
       /\ qi' = qi
       /\ driver_log' = driver_log
       /\ mongo_collection' = mongo_collection

C9_RetriesAreUnbounded ==
  /\ [][C9_SignalStep]_vars
  /\ ([](pc # "aborted") => (InLoop ~> (pc = "loop_done")))

C9_Witness ==
  /\ pc = "loop_done"
  /\ Len(ops) >= 3
  /\ ops[1].op = "limit"
  /\ ops[2].op = "limit"

\* C10: every completed loop is followed by a sleep of 30 to 120 seconds,
\* the last one too: a driver that has returned has slept once per query and
\* is not sleeping; with an empty list it calls nothing and sleeps never.
C10_SleepAfterEveryQuery ==
  /\ Len(LogOf("sleep")) + (IF pc \in {"loop_done", "call_returned", "driver_sleep"} THEN 1 ELSE 0)
       = Len(LogOf("done"))
  /\ (pc = "driver_sleep" =>
        sleeping \in 30..120 /\ Last(driver_log)[1] = "done")
  /\ (pc # "driver_sleep" => sleeping = 0)
  /\ (pc = "returned" =>
        /\ Len(LogOf("sleep")) = Len(list_of_queries)
        /\ Len(LogOf("done")) = Len(list_of_queries)
        /\ (list_of_queries # <<>> => Last(driver_log)[1] = "sleep"))
  /\ (list_of_queries = <<>> => driver_log = <<>> /\ pc \in {"driver", "returned"})

C10_Witness ==
  /\ pc = "returned"
  /\ Len(list_of_queries) = 2
  /\ Len(LogOf("sleep")) = 2

====
